---- MODULE Spec2Model ----
(***************************************************************************)
(* Process orchestration core of pdf_cleanup_agent:                        *)
(* scripts/ui/handlers/process_handler.py (ProcessManager) on top of       *)
(* scripts/ui/handlers/base_handler.py (BaseHandler).                      *)
(*                                                                         *)
(* Every method of ProcessManager is a pure operator on a record "s" that  *)
(* holds the object's fields, the signals emitted and the QProcess calls   *)
(* made so far in the running handler (s.trace) and the handler's return   *)
(* value (s.ret).  An action runs one handler to completion, as the Qt     *)
(* event loop does, and stores the resulting fields.                       *)
(*                                                                         *)
(* Modelled: queue_process, start_process, cancel_process, stop_process,   *)
(* stop_all_processes, initialize, the queue timer (_process_queue) and    *)
(* the finished notification (_handle_finished), the readyRead handlers    *)
(* (_handle_stdout, _handle_stderr) and _extract_progress_from_output.     *)
(* Text is a sequence of one-character strings.  The read-only getters,    *)
(* clear_completed_processes and the shutdown method cleanup are not part  *)
(* of this model; timestamps are left out.                                 *)
(*                                                                         *)
(* On top of it scripts/ui/handlers/pdf_handler.py: ProcessingState and    *)
(* the PDFHandler methods handle_pdf_drop, start_full_processing,          *)
(* retry_failed_pdf, cancel_processing, cancel_all_processing and the slot *)
(* _on_process_finished, as operators on a record "h" that holds the       *)
(* process manager (h.pm), the ProcessingState (h.ps) and the files on     *)
(* disk (h.files).                                                         *)
(***************************************************************************)
EXTENDS Integers, Sequences, FiniteSets, TLC

\* ---- bounds of the model ------------------------------------------------
NumIds == 2      \* process ids are 1..NumIds
MaxK == 2        \* max_concurrent_processes ranges over 1..MaxK
MaxOps == 3      \* number of calls the caller makes in one behaviour
MaxStream == 4   \* length of what a child writes to one pipe
MaxNum == 5      \* numbers 0..MaxNum appear in the progress lines
NumPdfs == 2     \* PDF files (entities) are 1..NumPdfs

Ids == 1..NumIds
NoId == 0        \* process_id=None / a signal that carries no id

\* ---- ProcessState (process_handler.py:18-24) ------------------------------
QUEUED == "queued"
RUNNING == "running"
FINISHED == "finished"
FAILED == "failed"
CANCELLED == "cancelled"
Terminal == {FINISHED, FAILED, CANCELLED}

\* ProcessInfo.exit_code = None, and "no ProcessInfo for this id"
NoCode == -1
NoInfo == [state |-> "absent", exit_code |-> NoCode]

\* exit codes a child can report: success (0) and failure (any other value)
ExitCodes == {0, 1}

\* QProcess.waitForFinished(3000) in stop_process: the child is reaped
\* within the grace period (with some exit code) or the wait times out
GraceExpired == -2
WaitOutcomes == ExitCodes \cup {GraceExpired}

\* what start_process can meet after its two admission checks
SpawnOutcomes == {"started", "timeout", "raise_before_store", "raise_on_start"}

VARIABLES
    max_concurrent_processes, \* constructor argument
    auto_process_queue,       \* constructor argument
    is_initialized,           \* BaseHandler._is_initialized
    active_processes,         \* keys of the dict, in insertion order
    process_queue,            \* list of QueuedProcess (+ the enqueue number)
    process_info,             \* id -> ProcessInfo, NoInfo when missing
    queue_timer,              \* queue_timer.isActive()
    trace,                    \* signals emitted / QProcess calls of the last handler
    last,                     \* the last handler: name, argument, id, return value
    spawned,                  \* history: enqueue numbers the drain passed to start_process
    dequeued,                 \* history: enqueue numbers removed by a cancel of a queued id
    finished_count,           \* history: process_finished emissions per id
    cancelled_count,          \* history: process_cancelled emissions per id
    queued_count,             \* history: process_queued emissions per id
    empty_since_idle,         \* history: queue_empty emissions since idle was entered
    idle_entered,             \* history: the manager went from busy to idle at least once
    nEnqueued,                \* history: number of queue_process calls
    nOps,                     \* history: number of caller operations
    terminal_emitted,         \* history: running ids whose process_cancelled is out
    out_events,               \* output/error/progress signals of the last handler
    channel,                  \* the pipe the child writes to: "stdout" or "stderr"
    input,                    \* the parts the child's progress line is made of
    stream,                   \* the text the child writes
    pos,                      \* how much of stream has been read
    progress,                 \* return value of _extract_progress_from_output
    processing_state,         \* PDFHandler.processing_state (ProcessingState)
    pdf_dir,                  \* the PDF files that exist on disk
    submitted                 \* history: files handed to the PDFHandler for processing

vars == <<max_concurrent_processes, auto_process_queue, is_initialized,
          active_processes, process_queue, process_info, queue_timer,
          trace, last, spawned, dequeued, finished_count, cancelled_count,
          queued_count, empty_since_idle, idle_entered, nEnqueued, nOps,
          terminal_emitted, out_events, channel, input, stream, pos, progress,
          processing_state, pdf_dir, submitted>>

\* ---- ProcessingState (pdf_handler.py:20-90) --------------------------------
Pdfs == 1..NumPdfs
NoPdf == 0       \* current_pdf = None
NoPath == 0      \* output_path = None / last_output_path = None

\* ProcessingState(): the dataclass defaults.  active_processes is the dict
\* process_id -> pdf_path as the sequence of its items in insertion order.
NewProcessingState ==
    [current_pdf        |-> NoPdf,
     processing_queue   |-> <<>>,
     active_processes   |-> <<>>,
     last_output_path   |-> NoPath,
     processing_history |-> <<>>,
     failed_pdfs        |-> <<>>]

Range(f) == {f[i] : i \in DOMAIN f}

Ev(sig, id, a, b) == [sig |-> sig, id |-> id, a |-> a, b |-> b]

\* the object's fields at the start of a handler
Self ==
    [active_processes |-> active_processes,
     process_queue    |-> process_queue,
     process_info     |-> process_info,
     queue_timer      |-> queue_timer,
     trace            |-> <<>>,
     ret              |-> FALSE]

Emit(s, e) == [s EXCEPT !.trace = Append(@, e)]

\* the four messages start_process reports through _handle_error
ErrAlreadyRunning == 1   \* "Process {id} already running"
ErrMaxReached == 2       \* "Maximum concurrent processes ({n}) reached"
ErrFailedToStart == 3    \* "Failed to start process {id}"
ErrStarting == 4         \* "Error starting process {id}: {e}"

\* BaseHandler._handle_error: error_occurred(error_type, error_message)
_handle_error(s, id, msg) == Emit(s, Ev("error_occurred", id, msg, 0))

\* queue_status_changed(len(process_queue), len(active_processes))
emit_queue_status(s) ==
    Emit(s, Ev("queue_status_changed", NoId, Len(s.process_queue), Len(s.active_processes)))

SetState(s, id, st) ==
    IF s.process_info[id] # NoInfo
    THEN [s EXCEPT !.process_info[id].state = st]
    ELSE s

\* ProcessManager._cleanup_process
_cleanup_process(s, id) ==
    [s EXCEPT !.active_processes = SelectSeq(@, LAMBDA x : x # id)]

\* queue_process that puts the new entry at the head of the queue
queue_process_at_head(s, id, n) ==
    LET s1 == [s EXCEPT !.process_info[id] = [state |-> QUEUED, exit_code |-> NoCode],
                        !.process_queue = <<[process_id |-> id, n |-> n]>> \o @]
        s2 == emit_queue_status(Emit(s1, Ev("process_queued", id, 0, 0)))
    IN  IF auto_process_queue /\ ~s2.queue_timer
        THEN [s2 EXCEPT !.queue_timer = TRUE]
        ELSE s2

\* ProcessManager.queue_process; n is the number of this enqueue
queue_process(s, id, n) ==
    LET s1 == [s EXCEPT !.process_info[id] = [state |-> QUEUED, exit_code |-> NoCode],
                        !.process_queue = Append(@, [process_id |-> id, n |-> n])]
        s2 == emit_queue_status(Emit(s1, Ev("process_queued", id, 0, 0)))
    IN  IF auto_process_queue /\ ~s2.queue_timer
        THEN [s2 EXCEPT !.queue_timer = TRUE]
        ELSE s2

\* start_process without the capacity check of lines 152-154
start_process_nocap(s, id, outcome) ==
    IF id \in Range(s.active_processes)
    THEN [_handle_error(s, id, ErrAlreadyRunning) EXCEPT !.ret = FALSE]
    ELSE IF outcome = "started"
    THEN LET s1 == [s EXCEPT
                      !.active_processes = Append(@, id),
                      !.process_info[id] =
                          IF @ = NoInfo
                          THEN [state |-> RUNNING, exit_code |-> NoCode]
                          ELSE [@ EXCEPT !.state = RUNNING]]
             s2 == Emit(s1, Ev("QProcess.start", id, 0, 0))
         IN  [emit_queue_status(Emit(s2, Ev("process_started", id, 0, 0)))
                EXCEPT !.ret = TRUE]
    ELSE [_handle_error(s, id, ErrFailedToStart) EXCEPT !.ret = FALSE]

\* start_process whose rejections return False without reporting an error
start_process_silent(s, id, outcome) ==
    IF \/ id \in Range(s.active_processes)
       \/ Len(s.active_processes) >= max_concurrent_processes
    THEN [s EXCEPT !.ret = FALSE]
    ELSE IF outcome = "started"
    THEN LET s1 == [s EXCEPT
                      !.active_processes = Append(@, id),
                      !.process_info[id] =
                          IF @ = NoInfo
                          THEN [state |-> RUNNING, exit_code |-> NoCode]
                          ELSE [@ EXCEPT !.state = RUNNING]]
             s2 == Emit(s1, Ev("QProcess.start", id, 0, 0))
         IN  [emit_queue_status(Emit(s2, Ev("process_started", id, 0, 0)))
                EXCEPT !.ret = TRUE]
    ELSE [_handle_error(s, id, ErrFailedToStart) EXCEPT !.ret = FALSE]

\* ProcessManager.start_process
start_process(s, id, outcome) ==
    IF id \in Range(s.active_processes)
    THEN [_handle_error(s, id, ErrAlreadyRunning) EXCEPT !.ret = FALSE]
    ELSE IF Len(s.active_processes) >= max_concurrent_processes
    THEN [_handle_error(s, id, ErrMaxReached) EXCEPT !.ret = FALSE]
    ELSE IF outcome = "raise_before_store"
    \* an exception before line 178 (e.g. setWorkingDirectory): nothing stored yet
    THEN [_handle_error(_cleanup_process(s, id), id, ErrStarting) EXCEPT !.ret = FALSE]
    ELSE
      LET s1 == [s EXCEPT
                   !.active_processes = Append(@, id),
                   !.process_info[id] =
                       IF @ = NoInfo
                       THEN [state |-> RUNNING, exit_code |-> NoCode]
                       ELSE [@ EXCEPT !.state = RUNNING]]
          s2 == Emit(s1, Ev("QProcess.start", id, 0, 0))
      IN  IF outcome = "started"
          THEN [emit_queue_status(Emit(s2, Ev("process_started", id, 0, 0)))
                  EXCEPT !.ret = TRUE]
          ELSE IF outcome = "timeout"
          \* waitForStarted(3000) returned False
          THEN [_handle_error(_cleanup_process(s2, id), id, ErrFailedToStart) EXCEPT !.ret = FALSE]
          \* QProcess.start raised
          ELSE [_handle_error(_cleanup_process(s2, id), id, ErrStarting) EXCEPT !.ret = FALSE]

\* _handle_finished that does not re-arm the queue timer (lines 425-426 dropped)
_handle_finished_norearm(s, id, exit_code) ==
    LET s1 == IF s.process_info[id] # NoInfo
              THEN [s EXCEPT !.process_info[id] =
                       [state |-> IF exit_code = 0 THEN FINISHED ELSE FAILED,
                        exit_code |-> exit_code]]
              ELSE s
        s2 == Emit(s1, Ev("process_finished", id, exit_code, 0))
        s3 == _cleanup_process(s2, id)
    IN  emit_queue_status(s3)

\* _handle_finished that records every exit as a success
_handle_finished_always_ok(s, id, exit_code) ==
    LET s1 == IF s.process_info[id] # NoInfo
              THEN [s EXCEPT !.process_info[id] =
                       [state |-> FINISHED, exit_code |-> exit_code]]
              ELSE s
        s2 == Emit(s1, Ev("process_finished", id, exit_code, 0))
        s3 == _cleanup_process(s2, id)
        s4 == emit_queue_status(s3)
    IN  IF auto_process_queue /\ s4.process_queue # <<>>
        THEN [s4 EXCEPT !.queue_timer = TRUE]
        ELSE s4

\* ProcessManager._handle_finished
_handle_finished(s, id, exit_code) ==
    LET s1 == IF s.process_info[id] # NoInfo
              THEN [s EXCEPT !.process_info[id] =
                       [state |-> IF exit_code = 0 THEN FINISHED ELSE FAILED,
                        exit_code |-> exit_code]]
              ELSE s
        s2 == Emit(s1, Ev("process_finished", id, exit_code, 0))
        s3 == _cleanup_process(s2, id)
        s4 == emit_queue_status(s3)
    IN  IF auto_process_queue /\ s4.process_queue # <<>>
        THEN [s4 EXCEPT !.queue_timer = TRUE]
        ELSE s4

\* ProcessManager.stop_process.  The finished signal is connected directly,
\* so a child reaped inside waitForFinished runs _handle_finished nested.
stop_process(s, id, force, wait) ==
    IF id \notin Range(s.active_processes)
    THEN [s EXCEPT !.ret = FALSE]
    ELSE
      LET s1 == SetState(s, id, CANCELLED)
          s2 == IF force
                THEN Emit(s1, Ev("QProcess.kill", id, 0, 0))
                ELSE LET t == Emit(s1, Ev("QProcess.terminate", id, 0, 0))
                     IN  IF wait = GraceExpired
                         THEN Emit(t, Ev("QProcess.kill", id, 0, 0))
                         ELSE _handle_finished(t, id, wait)
      IN  [Emit(s2, Ev("process_cancelled", id, 0, 0)) EXCEPT !.ret = TRUE]

\* index of the first queue entry of id, 0 when there is none
QueueIndex(q, id) ==
    IF \E i \in 1..Len(q) : q[i].process_id = id
    THEN CHOOSE i \in 1..Len(q) :
            /\ q[i].process_id = id
            /\ \A j \in 1..(i - 1) : q[j].process_id # id
    ELSE 0

RemoveAt(q, i) == SubSeq(q, 1, i - 1) \o SubSeq(q, i + 1, Len(q))

\* cancel_process that marks a queued id Cancelled but forgets to pop its entry
cancel_process_keep_entry(s, id, wait) ==
    LET i == QueueIndex(s.process_queue, id)
    IN  IF i # 0
        THEN LET s1 == SetState(s, id, CANCELLED)
             IN  [Emit(s1, Ev("process_cancelled", id, 0, 0)) EXCEPT !.ret = TRUE]
        ELSE IF id \in Range(s.active_processes)
        THEN stop_process(s, id, FALSE, wait)
        ELSE [s EXCEPT !.ret = FALSE]

\* ProcessManager.cancel_process
cancel_process(s, id, wait) ==
    LET i == QueueIndex(s.process_queue, id)
    IN  IF i # 0
        THEN LET s1 == [s EXCEPT !.process_queue = RemoveAt(@, i)]
                 s2 == SetState(s1, id, CANCELLED)
             IN  [Emit(s2, Ev("process_cancelled", id, 0, 0)) EXCEPT !.ret = TRUE]
        ELSE IF id \in Range(s.active_processes)
        THEN stop_process(s, id, FALSE, wait)
        ELSE [s EXCEPT !.ret = FALSE]

RECURSIVE CancelQueued(_, _)
CancelQueued(s, ids) ==
    IF ids = <<>> THEN s
    ELSE CancelQueued(Emit(SetState(s, Head(ids), CANCELLED),
                           Ev("process_cancelled", Head(ids), 0, 0)),
                      Tail(ids))

RECURSIVE StopEach(_, _)
StopEach(s, ids) ==
    IF ids = <<>> THEN s
    ELSE StopEach(stop_process(s, Head(ids), TRUE, GraceExpired), Tail(ids))

\* stop_all_processes that clears the queue and leaves the running set alone
stop_all_processes_queue_only(s) ==
    LET cancelled_queue == [i \in 1..Len(s.process_queue) |-> s.process_queue[i].process_id]
        s1 == [s EXCEPT !.process_queue = <<>>]
        s2 == CancelQueued(s1, cancelled_queue)
    IN  [s2 EXCEPT !.ret = FALSE]

\* ProcessManager.stop_all_processes
stop_all_processes(s) ==
    LET cancelled_queue == [i \in 1..Len(s.process_queue) |-> s.process_queue[i].process_id]
        s1 == [s EXCEPT !.process_queue = <<>>]
        s2 == CancelQueued(s1, cancelled_queue)
    IN  [StopEach(s2, s2.active_processes) EXCEPT !.ret = FALSE]

\* _process_queue that pops the entry enqueued last
_process_queue_lifo(s, outcome) ==
    IF s.process_queue = <<>>
    THEN IF s.active_processes = <<>>
         THEN Emit(s, Ev("queue_empty", NoId, 0, 0))
         ELSE s
    ELSE IF Len(s.active_processes) >= max_concurrent_processes
    THEN s
    ELSE
      LET queued_process == s.process_queue[Len(s.process_queue)]
          s1 == [s EXCEPT !.process_queue = SubSeq(@, 1, Len(@) - 1)]
          s2 == start_process(s1, queued_process.process_id, outcome)
          s3 == IF ~s2.ret THEN SetState(s2, queued_process.process_id, FAILED) ELSE s2
          s4 == IF auto_process_queue /\ s3.process_queue # <<>>
                THEN [s3 EXCEPT !.queue_timer = TRUE]
                ELSE s3
      IN  [s4 EXCEPT !.ret = FALSE]

\* _process_queue that schedules the next run only after a successful start
_process_queue_stall(s, outcome) ==
    IF s.process_queue = <<>>
    THEN IF s.active_processes = <<>>
         THEN Emit(s, Ev("queue_empty", NoId, 0, 0))
         ELSE s
    ELSE IF Len(s.active_processes) >= max_concurrent_processes
    THEN s
    ELSE
      LET queued_process == Head(s.process_queue)
          s1 == [s EXCEPT !.process_queue = Tail(@)]
          s2 == start_process(s1, queued_process.process_id, outcome)
          s3 == IF ~s2.ret THEN SetState(s2, queued_process.process_id, FAILED) ELSE s2
          s4 == IF auto_process_queue /\ s3.process_queue # <<>> /\ s2.ret
                THEN [s3 EXCEPT !.queue_timer = TRUE]
                ELSE s3
      IN  [s4 EXCEPT !.ret = FALSE]

\* ProcessManager._process_queue
_process_queue(s, outcome) ==
    IF s.process_queue = <<>>
    THEN IF s.active_processes = <<>>
         THEN Emit(s, Ev("queue_empty", NoId, 0, 0))
         ELSE s
    ELSE IF Len(s.active_processes) >= max_concurrent_processes
    THEN s
    ELSE
      LET queued_process == Head(s.process_queue)
          s1 == [s EXCEPT !.process_queue = Tail(@)]
          s2 == start_process(s1, queued_process.process_id, outcome)
          s3 == IF ~s2.ret THEN SetState(s2, queued_process.process_id, FAILED) ELSE s2
          s4 == IF auto_process_queue /\ s3.process_queue # <<>>
                THEN [s3 EXCEPT !.queue_timer = TRUE]
                ELSE s3
      IN  [s4 EXCEPT !.ret = FALSE]

\* ---- text: str methods and the regular expressions of ---------------------
\* ---- _extract_progress_from_output -----------------------------------------
NL == "\n"

\* str.isspace for the characters of the model
IsSpace(c) == c \in {" ", NL, "\t", "\r"}

Digits == <<"0", "1", "2", "3", "4", "5", "6", "7", "8", "9">>

\* \d
IsDigit(c) == \E d \in DOMAIN Digits : Digits[d] = c

DigitVal(c) == (CHOOSE d \in DOMAIN Digits : Digits[d] = c) - 1

UpperCase == <<"A", "B", "C", "D", "E", "F", "G", "H", "I", "J", "K", "L", "M",
               "N", "O", "P", "Q", "R", "S", "T", "U", "V", "W", "X", "Y", "Z">>
LowerCase == <<"a", "b", "c", "d", "e", "f", "g", "h", "i", "j", "k", "l", "m",
               "n", "o", "p", "q", "r", "s", "t", "u", "v", "w", "x", "y", "z">>

\* case folding of re.IGNORECASE
lower(c) ==
    IF \E k \in DOMAIN UpperCase : UpperCase[k] = c
    THEN LowerCase[CHOOSE k \in DOMAIN UpperCase : UpperCase[k] = c]
    ELSE c

\* int(match.group(i)) on a run of digits
RECURSIVE int(_)
int(ds) ==
    IF ds = <<>> THEN 0
    ELSE int(SubSeq(ds, 1, Len(ds) - 1)) * 10 + DigitVal(ds[Len(ds)])

\* the decimal text of a number, as the child prints it
RECURSIVE str(_)
str(n) ==
    IF n < 10 THEN <<Digits[n + 1]>>
    ELSE str(n \div 10) \o <<Digits[(n % 10) + 1]>>

RECURSIVE rstrip(_)
rstrip(x) ==
    IF x = <<>> \/ ~IsSpace(x[Len(x)]) THEN x
    ELSE rstrip(SubSeq(x, 1, Len(x) - 1))

RECURSIVE lstrip(_)
lstrip(x) ==
    IF x = <<>> \/ ~IsSpace(x[1]) THEN x
    ELSE lstrip(Tail(x))

strip(x) == lstrip(rstrip(x))

\* x.split('\n')
RECURSIVE split(_)
split(x) ==
    IF \A k \in DOMAIN x : x[k] # NL THEN <<x>>
    ELSE LET k == CHOOSE i \in DOMAIN x : x[i] = NL /\ \A j \in 1..(i - 1) : x[j] # NL
         IN  <<SubSeq(x, 1, k - 1)>> \o split(SubSeq(x, k + 1, Len(x)))

\* the elements the six patterns are made of
Lit(c) == [k |-> "lit", c |-> c]       \* one literal character
Spaces == [k |-> "spaces", c |-> ""]   \* \s*
Number == [k |-> "number", c |-> ""]   \* (\d+)
Word(w) == [i \in DOMAIN w |-> Lit(w[i])]

\* the list "patterns" of _extract_progress_from_output
patterns ==
    << <<Number, Lit("%")>>,
       <<Number, Lit("/"), Number>>,
       Word(<<"P", "r", "o", "g", "r", "e", "s", "s", ":">>) \o <<Spaces, Number>>,
       Word(<<"S", "t", "e", "p">>) \o <<Spaces, Number, Spaces>>
          \o Word(<<"o", "f">>) \o <<Spaces, Number>>,
       Word(<<"P", "r", "o", "c", "e", "s", "s", "i", "n", "g">>) \o <<Spaces, Number, Spaces>>
          \o Word(<<"o", "f">>) \o <<Spaces, Number>>,
       <<Lit("["), Number, Lit("/"), Number, Lit("]")>> >>

\* the index after the longest run of digits / of white space that starts at p
RECURSIVE DigitRun(_, _)
DigitRun(x, p) == IF p <= Len(x) /\ IsDigit(x[p]) THEN DigitRun(x, p + 1) ELSE p

RECURSIVE SpaceRun(_, _)
SpaceRun(x, p) == IF p <= Len(x) /\ IsSpace(x[p]) THEN SpaceRun(x, p + 1) ELSE p

NoMatch == [ok |-> FALSE, groups |-> <<>>]

\* re.match of a pattern at position p. \d+ and \s* are greedy; in these six
\* patterns the element after \d+ never matches a digit and the one after
\* \s* never matches white space, so the longest run is the only candidate.
RECURSIVE MatchAt(_, _, _, _)
MatchAt(pat, x, p, groups) ==
    IF pat = <<>> THEN [ok |-> TRUE, groups |-> groups]
    ELSE IF Head(pat).k = "lit"
    THEN IF p <= Len(x) /\ lower(x[p]) = lower(Head(pat).c)
         THEN MatchAt(Tail(pat), x, p + 1, groups)
         ELSE NoMatch
    ELSE IF Head(pat).k = "spaces"
    THEN MatchAt(Tail(pat), x, SpaceRun(x, p), groups)
    ELSE LET q == DigitRun(x, p)
         IN  IF q > p
             THEN MatchAt(Tail(pat), x, q, Append(groups, int(SubSeq(x, p, q - 1))))
             ELSE NoMatch

\* re.search(pattern, output, re.IGNORECASE): the leftmost match
RECURSIVE SearchFrom(_, _, _)
SearchFrom(pat, x, p) ==
    IF p > Len(x) THEN NoMatch
    ELSE IF MatchAt(pat, x, p, <<>>).ok THEN MatchAt(pat, x, p, <<>>)
    ELSE SearchFrom(pat, x, p + 1)

search(pat, x) == SearchFrom(pat, x, 1)

\* the pairs (current, total) up to 150 for which the double (current / total)
\* * 100 is just below the integer 100 * current / total, so that int() of it
\* is one less: 29/50 is 0.58 and 0.58 * 100 is 57.99999999999999
FloatShort ==
    {<<23, 5>>, <<41, 5>>, <<46, 5>>, <<51, 5>>, <<82, 5>>, <<87, 5>>, <<92, 5>>,
     <<97, 5>>, <<102, 5>>, <<23, 10>>, <<41, 10>>, <<46, 10>>, <<51, 10>>,
     <<82, 10>>, <<87, 10>>, <<92, 10>>, <<97, 10>>, <<102, 10>>, <<69, 15>>,
     <<123, 15>>, <<138, 15>>, <<23, 20>>, <<41, 20>>, <<46, 20>>, <<51, 20>>,
     <<82, 20>>, <<87, 20>>, <<92, 20>>, <<97, 20>>, <<102, 20>>, <<29, 25>>,
     <<57, 25>>, <<58, 25>>, <<113, 25>>, <<114, 25>>, <<115, 25>>, <<116, 25>>,
     <<69, 30>>, <<123, 30>>, <<138, 30>>, <<46, 40>>, <<82, 40>>, <<92, 40>>,
     <<102, 40>>, <<29, 50>>, <<57, 50>>, <<58, 50>>, <<113, 50>>, <<114, 50>>,
     <<115, 50>>, <<116, 50>>, <<69, 60>>, <<123, 60>>, <<138, 60>>, <<87, 75>>,
     <<92, 80>>, <<29, 100>>, <<57, 100>>, <<58, 100>>, <<113, 100>>,
     <<114, 100>>, <<115, 100>>, <<116, 100>>, <<138, 120>>, <<145, 125>>,
     <<87, 150>>}

\* int((current / total) * 100), for current and total up to 150
Percent(current, total) ==
    (100 * current) \div total - (IF <<current, total>> \in FloatShort THEN 1 ELSE 0)

\* min(100, max(0, n)) that lets every n through
Clamp_open(n) == n

\* min(100, max(0, n))
Clamp(n) ==
    LET lo == IF n > 0 THEN n ELSE 0
    IN  IF lo < 100 THEN lo ELSE 100

\* the loop "for pattern in patterns" of _extract_progress_from_output, from
\* the k-th pattern on
RECURSIVE TryPatterns(_, _)
TryPatterns(output, k) ==
    IF k > Len(patterns) THEN -1
    ELSE LET match == search(patterns[k], output)
         IN  IF ~match.ok THEN TryPatterns(output, k + 1)
             ELSE IF Len(match.groups) = 1 THEN Clamp(match.groups[1])
             ELSE IF match.groups[2] > 0
             THEN Clamp(Percent(match.groups[1], match.groups[2]))
             ELSE TryPatterns(output, k + 1)

\* _extract_progress_from_output without its first pattern, (\d+)%
_extract_progress_from_output_no_percent(output) == TryPatterns(output, 2)

\* _extract_progress_from_output that reads a fraction with total 0 as 0 percent
_extract_progress_from_output_zero(output) ==
    IF \E k \in DOMAIN patterns :
          LET match == search(patterns[k], output)
          IN  match.ok /\ Len(match.groups) = 2 /\ match.groups[2] = 0
    THEN 0
    ELSE TryPatterns(output, 1)

\* ProcessManager._extract_progress_from_output
_extract_progress_from_output(output) == TryPatterns(output, 1)

\* a signal that carries text: process_output(id, line), process_error(id,
\* line), process_progress_updated(id, percentage, line)
OutEv(sig, id, line, pct) == [sig |-> sig, id |-> id, line |-> line, pct |-> pct]

\* the loop "for line in lines" of _handle_stdout
RECURSIVE StdoutLines(_, _)
StdoutLines(id, lines) ==
    IF lines = <<>> THEN <<>>
    ELSE LET line == Head(lines)
             progress_percentage == _extract_progress_from_output(strip(line))
         IN  (IF strip(line) # <<>>
              THEN <<OutEv("process_output", id, strip(line), -1)>>
                   \o (IF progress_percentage >= 0
                       THEN <<OutEv("process_progress_updated", id, strip(line),
                                    progress_percentage)>>
                       ELSE <<>>)
              ELSE <<>>)
             \o StdoutLines(id, Tail(lines))

\* ProcessManager._handle_stdout; output is what readAllStandardOutput returns
_handle_stdout(s, id, output) ==
    IF id \in Range(s.active_processes) /\ output # <<>>
    THEN StdoutLines(id, split(rstrip(output)))
    ELSE <<>>

\* the loop "for line in lines" of _handle_stderr
RECURSIVE StderrLines(_, _)
StderrLines(id, lines) ==
    IF lines = <<>> THEN <<>>
    ELSE (IF strip(Head(lines)) # <<>>
          THEN <<OutEv("process_error", id, strip(Head(lines)), -1)>>
          ELSE <<>>)
         \o StderrLines(id, Tail(lines))

\* ProcessManager._handle_stderr
_handle_stderr(s, id, error) ==
    IF id \in Range(s.active_processes) /\ error # <<>>
    THEN StderrLines(id, split(rstrip(error)))
    ELSE <<>>

\* "no progress line" and "_extract_progress_from_output not called yet"
NoInput == <<>>
NoResult == -2

\* ---- history bookkeeping --------------------------------------------------
CountSig(tr, sig, id) == Cardinality({k \in DOMAIN tr : tr[k].sig = sig /\ tr[k].id = id})

IdleOf(q, a) == q = <<>> /\ a = <<>>

\* stores the fields of s and updates the history variables from s.trace
Commit(s, op, arg, id) ==
    /\ active_processes' = s.active_processes
    /\ process_queue' = s.process_queue
    /\ process_info' = s.process_info
    /\ queue_timer' = s.queue_timer
    /\ trace' = s.trace
    /\ last' = [op |-> op, arg |-> arg, id |-> id, ret |-> s.ret]
    /\ finished_count' = [i \in Ids |-> finished_count[i] + CountSig(s.trace, "process_finished", i)]
    /\ cancelled_count' = [i \in Ids |-> cancelled_count[i] + CountSig(s.trace, "process_cancelled", i)]
    /\ queued_count' = [i \in Ids |-> queued_count[i] + CountSig(s.trace, "process_queued", i)]
    /\ LET entering == ~IdleOf(process_queue, active_processes)
                       /\ IdleOf(s.process_queue, s.active_processes)
       IN  /\ empty_since_idle' = (IF entering THEN 0 ELSE empty_since_idle)
                                  + CountSig(s.trace, "queue_empty", NoId)
           /\ idle_entered' = (idle_entered \/ entering)
    /\ terminal_emitted' =
          {i \in Range(s.active_processes) :
              \/ i \in terminal_emitted
              \/ /\ CountSig(s.trace, "QProcess.kill", i) > 0
                 /\ CountSig(s.trace, "process_cancelled", i) > 0}
    /\ out_events' = <<>>
    /\ UNCHANGED <<max_concurrent_processes, auto_process_queue,
                   channel, input, stream, pos, progress,
                   processing_state, pdf_dir, submitted>>

\* ---- actions --------------------------------------------------------------
Init ==
    /\ max_concurrent_processes \in 1..MaxK
    /\ auto_process_queue \in BOOLEAN
    /\ is_initialized = FALSE
    /\ active_processes = <<>>
    /\ process_queue = <<>>
    /\ process_info = [i \in Ids |-> NoInfo]
    /\ queue_timer = FALSE
    /\ trace = <<>>
    /\ last = [op |-> "__init__", arg |-> NoId, id |-> NoId, ret |-> FALSE]
    /\ spawned = {}
    /\ dequeued = {}
    /\ finished_count = [i \in Ids |-> 0]
    /\ cancelled_count = [i \in Ids |-> 0]
    /\ queued_count = [i \in Ids |-> 0]
    /\ empty_since_idle = 0
    /\ idle_entered = FALSE
    /\ nEnqueued = 0
    /\ nOps = 0
    /\ terminal_emitted = {}
    /\ out_events = <<>>
    /\ channel = "stdout"
    /\ input = NoInput
    /\ stream = <<>>
    /\ pos = 0
    /\ progress = NoResult
    /\ processing_state = NewProcessingState
    /\ pdf_dir = {}
    /\ submitted = {}

\* BaseHandler.initialize -> ProcessManager._setup
Initialize ==
    /\ nOps < MaxOps
    /\ nOps' = nOps + 1
    /\ is_initialized' = TRUE
    /\ Commit(IF is_initialized THEN Self ELSE [Self EXCEPT !.queue_timer = TRUE],
              "initialize", NoId, NoId)
    /\ UNCHANGED <<spawned, dequeued, nEnqueued>>

\* queue_process(command, args, working_dir, process_id); process_id=None
\* draws uuid4()[:8], an id the manager does not know yet
QueueProcess ==
    /\ nOps < MaxOps
    /\ \E arg \in Ids \cup {NoId} :
       \E id \in Ids :
          /\ IF arg = NoId
             THEN /\ process_info[id] = NoInfo
                  /\ id \notin Range(active_processes)
             ELSE id = arg
          /\ Commit(queue_process(Self, id, nEnqueued + 1), "queue_process", arg, id)
    /\ nEnqueued' = nEnqueued + 1
    /\ nOps' = nOps + 1
    /\ UNCHANGED <<is_initialized, spawned, dequeued>>

\* an input that the handler never reads is not enumerated: the spawn outcome
\* of a rejected start, the grace wait of a forced stop or of an id that is
\* not waited for
OutcomesFor(id) ==
    IF id \in Range(active_processes)
       \/ Len(active_processes) >= max_concurrent_processes
    THEN {"started"}
    ELSE SpawnOutcomes

WaitsFor(id, force) ==
    IF force \/ id \notin Range(active_processes)
    THEN {GraceExpired}
    ELSE WaitOutcomes

StartProcess ==
    /\ nOps < MaxOps
    /\ \E id \in Ids :
       \E outcome \in OutcomesFor(id) :
          Commit(start_process(Self, id, outcome), "start_process", id, id)
    /\ nOps' = nOps + 1
    /\ UNCHANGED <<is_initialized, spawned, dequeued, nEnqueued>>

CancelProcess ==
    /\ nOps < MaxOps
    /\ \E id \in Ids :
       \E wait \in WaitsFor(id, QueueIndex(process_queue, id) # 0) :
          /\ Commit(cancel_process(Self, id, wait), "cancel_process", id, id)
          /\ LET i == QueueIndex(process_queue, id)
             IN  dequeued' = IF i # 0 THEN dequeued \cup {process_queue[i].n} ELSE dequeued
    /\ nOps' = nOps + 1
    /\ UNCHANGED <<is_initialized, spawned, nEnqueued>>

StopProcess ==
    /\ nOps < MaxOps
    /\ \E id \in Ids, force \in BOOLEAN :
       \E wait \in WaitsFor(id, force) :
          Commit(stop_process(Self, id, force, wait),
                 IF force THEN "stop_process_force" ELSE "stop_process", id, id)
    /\ nOps' = nOps + 1
    /\ UNCHANGED <<is_initialized, spawned, dequeued, nEnqueued>>

StopAllProcesses ==
    /\ nOps < MaxOps
    /\ Commit(stop_all_processes(Self), "stop_all_processes", NoId, NoId)
    /\ nOps' = nOps + 1
    /\ UNCHANGED <<is_initialized, spawned, dequeued, nEnqueued>>

\* the enqueue numbers of the entries of a queue
Tickets(q) == {q[k].n : k \in DOMAIN q}

\* queue_timer.timeout -> _process_queue (single shot: inactive when the slot runs)
QueueTimer(outcomes) ==
    /\ queue_timer
    /\ \E outcome \in (IF process_queue = <<>> THEN {"started"}
                       ELSE outcomes \cap OutcomesFor(Head(process_queue).process_id)) :
          LET s0 == [Self EXCEPT !.queue_timer = FALSE]
              popped == process_queue # <<>>
                        /\ Len(active_processes) < max_concurrent_processes
          IN  /\ Commit(_process_queue(s0, outcome), "_process_queue",
                        NoId, IF popped THEN Head(process_queue).process_id ELSE NoId)
              /\ spawned' = spawned \cup (Tickets(process_queue)
                                           \ Tickets(_process_queue(s0, outcome).process_queue))
    /\ UNCHANGED <<is_initialized, dequeued, nEnqueued, nOps>>

QueueTimerFires == QueueTimer(SpawnOutcomes)

\* QProcess.finished(exit_code, exit_status) -> _handle_finished
Exits(codes) ==
    /\ \E id \in Range(active_processes), exit_code \in codes :
          Commit(_handle_finished(Self, id, exit_code), "_handle_finished", id, id)
    /\ UNCHANGED <<is_initialized, spawned, dequeued, nEnqueued, nOps>>

ProcessExits == Exits(ExitCodes)

Next ==
    \/ Initialize
    \/ QueueProcess
    \/ StartProcess
    \/ CancelProcess
    \/ StopProcess
    \/ StopAllProcesses
    \/ QueueTimerFires
    \/ ProcessExits

Spec == Init /\ [][Next]_vars

\* ---- the drain scenario: sequential manager, every spawn succeeds, every
\* ---- child exits with code 0, the Qt event loop keeps dispatching
DrainInit ==
    /\ Init
    /\ max_concurrent_processes = 1
    /\ auto_process_queue = TRUE

DrainTimerFires == QueueTimer({"started"})

DrainExits == Exits({0})

DrainNext ==
    \/ Initialize
    \/ QueueProcess
    \/ DrainTimerFires
    \/ DrainExits

SpecDrain ==
    /\ DrainInit
    /\ [][DrainNext]_vars
    /\ WF_vars(DrainTimerFires)
    /\ WF_vars(DrainExits)

\* ---- the drain with spawn failures: sequential manager with automatic
\* ---- queue processing, the caller only enqueues, a spawn may fail in every
\* ---- way, a child may exit with any code, the Qt event loop keeps dispatching
AutoNext ==
    \/ Initialize
    \/ QueueProcess
    \/ QueueTimerFires
    \/ ProcessExits

SpecAuto ==
    /\ DrainInit
    /\ [][AutoNext]_vars
    /\ WF_vars(QueueTimerFires)
    /\ WF_vars(ProcessExits)

\* ---- output of the children ------------------------------------------------
\* the fields and history variables that a readyRead handler leaves alone
managerVars ==
    <<max_concurrent_processes, auto_process_queue, is_initialized,
      active_processes, process_queue, process_info, queue_timer,
      spawned, dequeued, finished_count, cancelled_count, queued_count,
      empty_since_idle, idle_entered, nEnqueued, nOps, terminal_emitted,
      processing_state, pdf_dir, submitted>>

\* QProcess.readyReadStandardOutput / readyReadStandardError of process id ->
\* _handle_stdout(id) / _handle_stderr(id); output is what readAll...() returns
ReadyRead(id, ch, output) ==
    /\ out_events' = IF ch = "stdout"
                     THEN _handle_stdout(Self, id, output)
                     ELSE _handle_stderr(Self, id, output)
    /\ trace' = <<>>
    /\ last' = [op |-> IF ch = "stdout" THEN "_handle_stdout" ELSE "_handle_stderr",
                arg |-> id, id |-> id, ret |-> FALSE]
    /\ UNCHANGED managerVars

\* what a child has written when the manager reads its pipe
OutChunks == { <<"o", "k", NL>>, <<"5", "0", "%", NL>> }

\* a running child, or one that was sent kill() and has not been reaped yet,
\* has output waiting
StdoutReady ==
    /\ \E id \in Range(active_processes), output \in OutChunks :
          ReadyRead(id, "stdout", output)
    /\ UNCHANGED <<channel, input, stream, pos, progress>>

StderrReady ==
    /\ \E id \in Range(active_processes), output \in OutChunks :
          ReadyRead(id, "stderr", output)
    /\ UNCHANGED <<channel, input, stream, pos, progress>>

OutNext ==
    \/ Next
    \/ StdoutReady
    \/ StderrReady

\* the manager together with the output of its children
SpecOut == Init /\ [][OutNext]_vars

\* ---- one child and its pipe: ProcessManager(auto_process_queue=False) with
\* ---- a process stored under active_processes[1], as the handler tests do
HarnessInit ==
    /\ max_concurrent_processes = 1
    /\ auto_process_queue = FALSE
    /\ is_initialized = TRUE
    /\ active_processes = <<1>>
    /\ process_queue = <<>>
    /\ process_info = [i \in Ids |-> NoInfo]
    /\ queue_timer = FALSE
    /\ trace = <<>>
    /\ last = [op |-> "__init__", arg |-> NoId, id |-> NoId, ret |-> FALSE]
    /\ spawned = {}
    /\ dequeued = {}
    /\ finished_count = [i \in Ids |-> 0]
    /\ cancelled_count = [i \in Ids |-> 0]
    /\ queued_count = [i \in Ids |-> 0]
    /\ empty_since_idle = 0
    /\ idle_entered = FALSE
    /\ nEnqueued = 0
    /\ nOps = 0
    /\ terminal_emitted = {}
    /\ out_events = <<>>
    /\ pos = 0
    /\ progress = NoResult
    /\ processing_state = NewProcessingState
    /\ pdf_dir = {}
    /\ submitted = {}

\* every text of at most MaxStream characters out of letters, blanks and newlines
StreamChars == {"a", "b", " ", NL}

Streams == UNION {[1..n -> StreamChars] : n \in 0..MaxStream}

LinesInit ==
    /\ HarnessInit
    /\ channel \in {"stdout", "stderr"}
    /\ input = NoInput
    /\ stream \in Streams

\* the OS hands over the next n characters of the pipe
ReadChunk ==
    /\ pos < Len(stream)
    /\ \E n \in 1..(Len(stream) - pos) :
          /\ ReadyRead(1, channel, SubSeq(stream, pos + 1, pos + n))
          /\ pos' = pos + n
    /\ UNCHANGED <<channel, input, stream, progress>>

SpecLines == LinesInit /\ [][ReadChunk]_vars

\* ---- progress lines: prefix, number, separator, number, suffix ------------
None == -1

Nums == (0..MaxNum) \cup {7, 10, 29, 50, 75, 100, 150}

Plain == <<>>
ProgressWord == <<"P", "r", "o", "g", "r", "e", "s", "s", ":", " ">>
ProgressUpper == <<"P", "R", "O", "G", "R", "E", "S", "S", ":">>
StepWord == <<"S", "t", "e", "p", " ">>
ProcessingWord == <<"P", "r", "o", "c", "e", "s", "s", "i", "n", "g", " ">>
Bracket == <<"[">>
NoProgressInfo == <<"N", "o", " ", "p", "r", "o", "g", "r", "e", "s", "s", " ",
                    "i", "n", "f", "o">>

Prefixes == {Plain, ProgressWord, ProgressUpper, StepWord, ProcessingWord,
             Bracket, NoProgressInfo}

Slash == <<"/">>
Of == <<" ", "o", "f", " ">>
PercentSign == <<"%", " ">>
Blank == <<" ">>

Seps == {Slash, Of, PercentSign, Blank}

Suffixes == {<<>>, <<"%">>, <<"]">>}

Inputs ==
    [prefix : Prefixes, current : Nums \cup {None}, sep : Seps,
     total : Nums \cup {None}, suffix : Suffixes]

LineOf(in) ==
    in.prefix \o (IF in.current = None THEN <<>> ELSE str(in.current))
       \o in.sep \o (IF in.total = None THEN <<>> ELSE str(in.total))
       \o in.suffix

ProgressInit ==
    /\ HarnessInit
    /\ channel = "stdout"
    /\ input \in Inputs
    /\ stream = LineOf(input)

\* a direct call _extract_progress_from_output(line)
ExtractProgress ==
    /\ progress = NoResult
    /\ progress' = _extract_progress_from_output(stream)
    /\ last' = [op |-> "_extract_progress_from_output", arg |-> NoId, id |-> NoId,
                ret |-> FALSE]
    /\ trace' = <<>>
    /\ out_events' = <<>>
    /\ UNCHANGED managerVars
    /\ UNCHANGED <<channel, input, stream, pos>>

\* the child prints the line and the manager reads it in one piece
ReadLine ==
    /\ pos = 0
    /\ ReadyRead(1, "stdout", stream \o <<NL>>)
    /\ pos' = Len(stream)
    /\ UNCHANGED <<channel, input, stream, progress>>

ProgressNext ==
    \/ ExtractProgress
    \/ ReadLine

SpecProgress == ProgressInit /\ [][ProgressNext]_vars

\* ---- PDFHandler (pdf_handler.py): the tracker of the PDF files on top of a
\* ---- ProcessManager(self), i.e. max_concurrent_processes = 1 and
\* ---- auto_process_queue = True.  A file is a number of Pdfs; the file p is
\* ---- called "a.pdf" with p - 1 letters "x" in front ("a.pdf", "xa.pdf", ...),
\* ---- so that one basename can be part of another.  The process ids
\* ---- "pdf_segment_<name>" and "pdf_pipeline_<name>" are the numbers p and
\* ---- NumPdfs + p.  The PDFHandler's own signals, active_progress_ids and
\* ---- the status manager are left out; _start_llm_processing has no caller.
basename(pdf) == [i \in 1..(pdf - 1) |-> "x"] \o <<"a", ".", "p", "d", "f">>

PdfSegmentPrefix == <<"p", "d", "f", "_", "s", "e", "g", "m", "e", "n", "t", "_">>
PdfPipelinePrefix == <<"p", "d", "f", "_", "p", "i", "p", "e", "l", "i", "n", "e", "_">>

PidSegment(pdf) == pdf
PidPipeline(pdf) == NumPdfs + pdf
TrackIds == 1..(2 * NumPdfs)

\* the text of a process id
ProcessIdText(pid) ==
    IF pid <= NumPdfs
    THEN PdfSegmentPrefix \o basename(pid)
    ELSE PdfPipelinePrefix \o basename(pid - NumPdfs)

\* needle in hay (str.__contains__)
Contains(hay, needle) ==
    \E i \in 1..(Len(hay) - Len(needle) + 1) :
       SubSeq(hay, i, i + Len(needle) - 1) = needle

\* hay.startswith(prefix)
StartsWith(hay, prefix) ==
    /\ Len(hay) >= Len(prefix)
    /\ SubSeq(hay, 1, Len(prefix)) = prefix

\* the file of the PDF directory with this basename
PdfNamed(name) == CHOOSE p \in Pdfs : basename(p) = name

\* os.path.join(txt dir, stem) and os.path.join(markdown dir, stem)
TxtPath(pdf) == pdf
MdPath(pdf) == NumPdfs + pdf

\* list.remove(x): the first occurrence goes
RemoveFirst(q, x) ==
    IF \E i \in 1..Len(q) : q[i] = x
    THEN LET i == CHOOSE i \in 1..Len(q) : q[i] = x /\ \A j \in 1..(i - 1) : q[j] # x
         IN  SubSeq(q, 1, i - 1) \o SubSeq(q, i + 1, Len(q))
    ELSE q

\* the dict active_processes: keys, lookup, assignment, del
DictKeys(d) == [i \in 1..Len(d) |-> d[i].process_id]
DictHas(d, k) == \E i \in 1..Len(d) : d[i].process_id = k
DictGet(d, k) == (CHOOSE e \in Range(d) : e.process_id = k).pdf_path
DictSet(d, k, v) ==
    IF DictHas(d, k)
    THEN [i \in 1..Len(d) |-> IF d[i].process_id = k THEN [d[i] EXCEPT !.pdf_path = v] ELSE d[i]]
    ELSE Append(d, [process_id |-> k, pdf_path |-> v])
DictDel(d, k) == SelectSeq(d, LAMBDA e : e.process_id # k)

\* ProcessingState.add_to_queue
add_to_queue(ps, pdf_path) ==
    IF pdf_path \notin Range(ps.processing_queue)
    THEN [ps EXCEPT !.processing_queue = Append(@, pdf_path)]
    ELSE ps

\* ProcessingState.remove_from_queue
remove_from_queue(ps, pdf_path) ==
    IF pdf_path \in Range(ps.processing_queue)
    THEN [ps EXCEPT !.processing_queue = RemoveFirst(@, pdf_path)]
    ELSE ps

\* ProcessingState.start_processing
start_processing(ps, pdf_path, process_id) ==
    remove_from_queue([ps EXCEPT !.current_pdf = pdf_path,
                                 !.active_processes = DictSet(@, process_id, pdf_path)],
                      pdf_path)

\* finish_processing that keeps no list of the failed files
finish_processing_no_failed(ps, process_id, success, output_path) ==
    IF DictHas(ps.active_processes, process_id)
    THEN LET pdf_path == DictGet(ps.active_processes, process_id)
             ps1 == [ps EXCEPT
                       !.active_processes = DictDel(@, process_id),
                       !.processing_history =
                           Append(@, [pdf_path    |-> pdf_path,
                                      process_id  |-> process_id,
                                      success     |-> success,
                                      output_path |-> output_path])]
             ps2 == IF success /\ output_path # NoPath
                    THEN [ps1 EXCEPT !.last_output_path = output_path]
                    ELSE ps1
         IN  IF ps2.current_pdf = pdf_path
             THEN [ps2 EXCEPT !.current_pdf = NoPdf]
             ELSE ps2
    ELSE ps

\* ProcessingState.finish_processing
finish_processing(ps, process_id, success, output_path) ==
    IF DictHas(ps.active_processes, process_id)
    THEN LET pdf_path == DictGet(ps.active_processes, process_id)
             ps1 == [ps EXCEPT
                       !.active_processes = DictDel(@, process_id),
                       !.processing_history =
                           Append(@, [pdf_path    |-> pdf_path,
                                      process_id  |-> process_id,
                                      success     |-> success,
                                      output_path |-> output_path])]
             ps2 == IF success /\ output_path # NoPath
                    THEN [ps1 EXCEPT !.last_output_path = output_path]
                    ELSE IF ~success
                    THEN [ps1 EXCEPT !.failed_pdfs = Append(@, pdf_path)]
                    ELSE ps1
         IN  IF ps2.current_pdf = pdf_path
             THEN [ps2 EXCEPT !.current_pdf = NoPdf]
             ELSE ps2
    ELSE ps

\* PDFHandler._handle_segmentation_finished; the prefix is at the front of
\* the id and nowhere else, so replace(prefix, "") cuts it off
_handle_segmentation_finished(ps, process_id, success) ==
    LET text == ProcessIdText(process_id)
        pdf_name == SubSeq(text, Len(PdfSegmentPrefix) + 1, Len(text))
        pdf_path == PdfNamed(pdf_name)
        output_path == IF success THEN TxtPath(pdf_path) ELSE NoPath
    IN  finish_processing(ps, process_id, success, output_path)

\* PDFHandler._handle_pipeline_finished
_handle_pipeline_finished(ps, process_id, success) ==
    LET text == ProcessIdText(process_id)
        pdf_name == SubSeq(text, Len(PdfPipelinePrefix) + 1, Len(text))
        pdf_path == PdfNamed(pdf_name)
        output_path == IF success THEN MdPath(pdf_path) ELSE NoPath
    IN  finish_processing(ps, process_id, success, output_path)

\* PDFHandler._on_process_finished, the slot of process_finished
_on_process_finished(ps, process_id, exit_code) ==
    LET success == exit_code = 0
    IN  IF StartsWith(ProcessIdText(process_id), PdfSegmentPrefix)
        THEN _handle_segmentation_finished(ps, process_id, success)
        ELSE IF StartsWith(ProcessIdText(process_id), PdfPipelinePrefix)
        THEN _handle_pipeline_finished(ps, process_id, success)
        ELSE ps

\* the process_finished signals among the emissions evs reach the slot
RECURSIVE Deliver(_, _)
Deliver(ps, evs) ==
    IF evs = <<>> THEN ps
    ELSE Deliver(IF Head(evs).sig = "process_finished"
                 THEN _on_process_finished(ps, Head(evs).id, Head(evs).a)
                 ELSE ps,
                 Tail(evs))

\* the PDFHandler at the start of one of its methods
Handler ==
    [pm    |-> Self,
     ps    |-> processing_state,
     files |-> pdf_dir,
     ret   |-> FALSE]

\* a call into the process manager returned s: its fields are stored and the
\* signals it emitted meanwhile have run the connected slots
Receive(h, s) ==
    [h EXCEPT !.pm = s,
              !.ps = Deliver(@, SubSeq(s.trace, Len(h.pm.trace) + 1, Len(s.trace)))]

\* _start_pdf_segmentation that records the process as active although the
\* process manager did not start it
_start_pdf_segmentation_unchecked(h, pdf_path, outcome) ==
    LET process_id == PidSegment(pdf_path)
        h1 == Receive(h, start_process(h.pm, process_id, outcome))
    IN  [h1 EXCEPT !.ps = start_processing(@, pdf_path, process_id), !.ret = h1.pm.ret]

\* PDFHandler._start_pdf_segmentation
_start_pdf_segmentation(h, pdf_path, outcome) ==
    LET process_id == PidSegment(pdf_path)
        h1 == Receive(h, start_process(h.pm, process_id, outcome))
    IN  IF h1.pm.ret
        THEN [h1 EXCEPT !.ps = start_processing(@, pdf_path, process_id), !.ret = TRUE]
        ELSE [h1 EXCEPT !.ret = FALSE]

\* _start_processing_pipeline that records the file as processing whether or
\* not the process manager started the process
_start_processing_pipeline_unchecked(h, pdf_path, outcome) ==
    LET process_id == PidPipeline(pdf_path)
        h1 == Receive(h, start_process(h.pm, process_id, outcome))
    IN  [h1 EXCEPT !.ps = start_processing(@, pdf_path, process_id), !.ret = h1.pm.ret]

\* PDFHandler._start_processing_pipeline
_start_processing_pipeline(h, pdf_path, outcome) ==
    LET process_id == PidPipeline(pdf_path)
        h1 == Receive(h, start_process(h.pm, process_id, outcome))
    IN  IF h1.pm.ret
        THEN [h1 EXCEPT !.ps = start_processing(@, pdf_path, process_id), !.ret = TRUE]
        ELSE [h1 EXCEPT !.ret = FALSE]

\* PDFHandler.handle_pdf_drop; dest_path is the copy _copy_pdf_to_data_dir
\* made under a name that was free, NoPdf when the dropped file is not a PDF
\* file or the copy failed
handle_pdf_drop(h, dest_path, outcome) ==
    IF dest_path = NoPdf
    THEN [h EXCEPT !.ret = FALSE]
    ELSE LET h1 == [h EXCEPT !.files = @ \cup {dest_path},
                             !.ps = add_to_queue(@, dest_path)]
         IN  _start_pdf_segmentation(h1, dest_path, outcome)

\* PDFHandler.start_full_processing
start_full_processing(h, pdf_path, outcome) ==
    IF pdf_path \notin h.files
    THEN [h EXCEPT !.ret = FALSE]
    ELSE _start_processing_pipeline([h EXCEPT !.ps = add_to_queue(@, pdf_path)],
                                    pdf_path, outcome)

\* PDFHandler.retry_failed_pdf
retry_failed_pdf(h, pdf_path, outcome) ==
    LET h1 == IF pdf_path \in Range(h.ps.failed_pdfs)
              THEN [h EXCEPT !.ps.failed_pdfs = RemoveFirst(@, pdf_path)]
              ELSE h
    IN  start_full_processing(h1, pdf_path, outcome)

\* the loop over processes_to_stop of cancel_processing; h.ret is "success"
RECURSIVE StopMatching(_, _)
StopMatching(h, pids) ==
    IF pids = <<>> THEN h
    ELSE LET h1 == Receive(h, stop_process(h.pm, Head(pids), TRUE, GraceExpired))
         IN  StopMatching(IF h1.pm.ret THEN h1 ELSE [h1 EXCEPT !.ret = FALSE], Tail(pids))

\* cancel_processing that stops the processes and leaves the file pending
cancel_processing_keep_pending(h, pdf_path) ==
    LET pdf_name == basename(pdf_path)
        processes_to_stop ==
            SelectSeq(DictKeys(h.ps.active_processes),
                      LAMBDA process_id : Contains(ProcessIdText(process_id), pdf_name))
    IN  StopMatching([h EXCEPT !.ret = TRUE], processes_to_stop)

\* PDFHandler.cancel_processing
cancel_processing(h, pdf_path) ==
    LET pdf_name == basename(pdf_path)
        processes_to_stop ==
            SelectSeq(DictKeys(h.ps.active_processes),
                      LAMBDA process_id : Contains(ProcessIdText(process_id), pdf_name))
        h1 == StopMatching([h EXCEPT !.ret = TRUE], processes_to_stop)
    IN  [h1 EXCEPT !.ps = remove_from_queue(@, pdf_path)]

\* cancel_all_processing that wipes the history as well
cancel_all_processing_wipe(h) ==
    LET h1 == Receive(h, stop_all_processes(h.pm))
    IN  [h1 EXCEPT !.ps.processing_queue = <<>>,
                   !.ps.active_processes = <<>>,
                   !.ps.current_pdf = NoPdf,
                   !.ps.processing_history = <<>>,
                   !.ret = TRUE]

\* cancel_all_processing that forgets the processes and does not stop them
cancel_all_processing_no_stop(h) ==
    [h EXCEPT !.ps.processing_queue = <<>>,
              !.ps.active_processes = <<>>,
              !.ps.current_pdf = NoPdf,
              !.ret = TRUE]

\* PDFHandler.cancel_all_processing
cancel_all_processing(h) ==
    LET h1 == Receive(h, stop_all_processes(h.pm))
    IN  [h1 EXCEPT !.ps.processing_queue = <<>>,
                   !.ps.active_processes = <<>>,
                   !.ps.current_pdf = NoPdf,
                   !.ret = TRUE]

\* stores the fields of the PDFHandler and of its process manager
TrackCommit(h, op, arg, id) ==
    /\ active_processes' = h.pm.active_processes
    /\ process_queue' = h.pm.process_queue
    /\ process_info' = h.pm.process_info
    /\ queue_timer' = h.pm.queue_timer
    /\ trace' = h.pm.trace
    /\ last' = [op |-> op, arg |-> arg, id |-> id, ret |-> h.ret]
    /\ processing_state' = h.ps
    /\ pdf_dir' = h.files
    /\ UNCHANGED <<max_concurrent_processes, auto_process_queue, is_initialized,
                   spawned, dequeued, finished_count, cancelled_count, queued_count,
                   empty_since_idle, idle_entered, nEnqueued, terminal_emitted,
                   out_events, channel, input, stream, pos, progress>>

\* PDFHandler() after initialize(): _setup has made ProcessManager(self) and
\* initialized it, which starts the queue timer; any file may be on disk
TrackInit ==
    /\ max_concurrent_processes = 1
    /\ auto_process_queue = TRUE
    /\ is_initialized = TRUE
    /\ active_processes = <<>>
    /\ process_queue = <<>>
    /\ process_info = [i \in TrackIds |-> NoInfo]
    /\ queue_timer = TRUE
    /\ trace = <<>>
    /\ last = [op |-> "initialize", arg |-> NoId, id |-> NoId, ret |-> FALSE]
    /\ spawned = {}
    /\ dequeued = {}
    /\ finished_count = [i \in Ids |-> 0]
    /\ cancelled_count = [i \in Ids |-> 0]
    /\ queued_count = [i \in Ids |-> 0]
    /\ empty_since_idle = 0
    /\ idle_entered = FALSE
    /\ nEnqueued = 0
    /\ nOps = 0
    /\ terminal_emitted = {}
    /\ out_events = <<>>
    /\ channel = "stdout"
    /\ input = NoInput
    /\ stream = <<>>
    /\ pos = 0
    /\ progress = NoResult
    /\ processing_state = NewProcessingState
    /\ pdf_dir \in SUBSET Pdfs
    /\ submitted = {}

\* pdf_dropped -> handle_pdf_drop(pdf_path)
HandlePdfDrop ==
    /\ nOps < MaxOps
    /\ \E dest_path \in (Pdfs \ pdf_dir) \cup {NoPdf} :
       \E outcome \in OutcomesFor(PidSegment(dest_path)) :
          /\ TrackCommit(handle_pdf_drop(Handler, dest_path, outcome),
                         "handle_pdf_drop", dest_path,
                         IF dest_path = NoPdf THEN NoId ELSE PidSegment(dest_path))
          /\ submitted' = IF dest_path = NoPdf THEN submitted ELSE submitted \cup {dest_path}
    /\ nOps' = nOps + 1

\* process_pdf_requested -> start_full_processing(pdf_path)
StartFullProcessing ==
    /\ nOps < MaxOps
    /\ \E pdf_path \in Pdfs :
       \E outcome \in (IF pdf_path \in pdf_dir THEN OutcomesFor(PidPipeline(pdf_path))
                       ELSE {"started"}) :
          /\ TrackCommit(start_full_processing(Handler, pdf_path, outcome),
                         "start_full_processing", pdf_path, PidPipeline(pdf_path))
          /\ submitted' = IF pdf_path \in pdf_dir THEN submitted \cup {pdf_path} ELSE submitted
    /\ nOps' = nOps + 1

RetryFailedPdf ==
    /\ nOps < MaxOps
    /\ \E pdf_path \in Pdfs :
       \E outcome \in (IF pdf_path \in pdf_dir THEN OutcomesFor(PidPipeline(pdf_path))
                       ELSE {"started"}) :
          /\ TrackCommit(retry_failed_pdf(Handler, pdf_path, outcome),
                         "retry_failed_pdf", pdf_path, PidPipeline(pdf_path))
          /\ submitted' = IF pdf_path \in pdf_dir THEN submitted \cup {pdf_path} ELSE submitted
    /\ nOps' = nOps + 1

CancelProcessing ==
    /\ nOps < MaxOps
    /\ \E pdf_path \in Pdfs :
          TrackCommit(cancel_processing(Handler, pdf_path), "cancel_processing", pdf_path, NoId)
    /\ nOps' = nOps + 1
    /\ UNCHANGED submitted

\* stop_processing_requested -> cancel_all_processing()
CancelAllProcessing ==
    /\ nOps < MaxOps
    /\ TrackCommit(cancel_all_processing(Handler), "cancel_all_processing", NoPdf, NoId)
    /\ nOps' = nOps + 1
    /\ UNCHANGED submitted

\* queue_timer.timeout -> _process_queue; the PDFHandler queues nothing
TrackTimerFires ==
    /\ queue_timer
    /\ TrackCommit(Receive(Handler, _process_queue([Self EXCEPT !.queue_timer = FALSE], "started")),
                   "_process_queue", NoPdf, NoId)
    /\ UNCHANGED <<nOps, submitted>>

\* QProcess.finished -> _handle_finished -> process_finished -> _on_process_finished
TrackExit(codes) ==
    /\ \E id \in Range(active_processes) :
       \E exit_code \in codes[id] :
          TrackCommit(Receive(Handler, _handle_finished(Self, id, exit_code)),
                      "_handle_finished", exit_code, id)
    /\ UNCHANGED <<nOps, submitted>>

TrackExits == TrackExit([id \in TrackIds |-> ExitCodes])

TrackNext ==
    \/ HandlePdfDrop
    \/ StartFullProcessing
    \/ RetryFailedPdf
    \/ CancelProcessing
    \/ CancelAllProcessing
    \/ TrackTimerFires
    \/ TrackExits

SpecTrack == TrackInit /\ [][TrackNext]_vars

\* ---- two files side by side: every start succeeds, the processes of the
\* ---- file FileA exit with code 1 and all others with code 0, and the caller
\* ---- only submits (no cancel, no retry)
FileA == 1
FileB == 2

IsolationDrop ==
    /\ nOps < MaxOps
    /\ \E dest_path \in Pdfs \ pdf_dir :
          /\ TrackCommit(handle_pdf_drop(Handler, dest_path, "started"),
                         "handle_pdf_drop", dest_path, PidSegment(dest_path))
          /\ submitted' = submitted \cup {dest_path}
    /\ nOps' = nOps + 1

IsolationSubmit ==
    /\ nOps < MaxOps
    /\ \E pdf_path \in pdf_dir :
          /\ TrackCommit(start_full_processing(Handler, pdf_path, "started"),
                         "start_full_processing", pdf_path, PidPipeline(pdf_path))
          /\ submitted' = submitted \cup {pdf_path}
    /\ nOps' = nOps + 1

IsolationExits ==
    TrackExit([id \in TrackIds |->
                 IF id \in {PidSegment(FileA), PidPipeline(FileA)} THEN {1} ELSE {0}])

IsolationNext ==
    \/ IsolationDrop
    \/ IsolationSubmit
    \/ TrackTimerFires
    \/ IsolationExits

SpecIsolation ==
    /\ TrackInit
    /\ [][IsolationNext]_vars
    /\ WF_vars(TrackTimerFires)
    /\ WF_vars(IsolationExits)

Idle == IdleOf(process_queue, active_processes)

\* C1: the number of processes in active_processes never exceeds
\* max_concurrent_processes, whatever the interleaving of queue_process,
\* start_process, timer firings, cancellations and exit notifications.
C1_CapEnforced ==
    /\ Len(active_processes) <= max_concurrent_processes
    /\ Cardinality(Range(active_processes)) <= max_concurrent_processes

\* the drain ran at the cap with entries waiting and started nothing
C1_Witness ==
    /\ last.op = "_process_queue"
    /\ process_queue # <<>>
    /\ Len(active_processes) = max_concurrent_processes
    /\ trace = <<>>

\* every enqueue has run to Finished with exit code 0 and nothing is pending
DrainDone ==
    /\ process_queue = <<>>
    /\ active_processes = <<>>
    /\ \A i \in Ids :
          /\ finished_count[i] = queued_count[i]
          /\ queued_count[i] > 0 =>
                process_info[i] = [state |-> FINISHED, exit_code |-> 0]

\* C2: with max_concurrent_processes = 1 and auto_process_queue, when all
\* spawns succeed and all children exit 0, eventually (and from then on, once
\* the caller stops enqueuing) the queue is empty, every enqueued id is
\* Finished with exit code 0, and process_finished was emitted exactly once
\* per enqueue.
C2_QueueDrains == <>[]DrainDone

C2_Witness ==
    /\ DrainDone
    /\ nEnqueued >= 2
    /\ \A i \in Ids : queued_count[i] > 0

\* nothing is queued, running or scheduled: no handler runs until the caller acts
Quiescent == Idle /\ ~queue_timer

\* C3: every transition into "no queued entries and no running processes"
\* is answered by exactly one queue_empty: never a second one while idle,
\* and one has been emitted once nothing more is scheduled.
C3_QueueEmptyOncePerTransition ==
    /\ (Idle /\ idle_entered) => empty_since_idle <= 1
    /\ (Quiescent /\ idle_entered) => empty_since_idle = 1

\* a step in which the caller's call op(id) ran
Called(op, id) == nOps' = nOps + 1 /\ last'.op = op /\ last'.id = id

HasEv(tr, sig, id) == \E k \in DOMAIN tr : tr[k].sig = sig /\ tr[k].id = id

\* C4: cancel_process on an id that has an entry in the queue returns True,
\* removes that (first) entry, leaves the record Cancelled and emits
\* process_cancelled; and no entry removed this way is ever handed to
\* start_process by the drain.
C4_CancelBeforeStart ==
    /\ [][\A id \in Ids :
            (QueueIndex(process_queue, id) # 0 /\ Called("cancel_process", id)) =>
               LET i == QueueIndex(process_queue, id)
                   e == process_queue[i]
               IN  /\ last'.ret = TRUE
                   /\ Len(process_queue') = Len(process_queue) - 1
                   /\ e \notin Range(process_queue')
                   /\ \A x \in Range(process_queue) : x # e => x \in Range(process_queue')
                   /\ process_info'[id].state = CANCELLED
                   /\ CountSig(trace', "process_cancelled", id) = 1
                   /\ ~HasEv(trace', "QProcess.start", id)]_vars
    /\ [](dequeued \cap spawned = {})

\* the drain ran after a queued entry was cancelled and started a later entry
C4_Witness ==
    /\ dequeued # {}
    /\ spawned # {}
    /\ last.op = "_process_queue"
    /\ last.id \in Range(active_processes)

\* the record of id is missing or terminal
UnknownOrTerminal(id) ==
    process_info[id] = NoInfo \/ process_info[id].state \in Terminal

\* C5: cancel_process on an id that is unknown or whose record is Finished,
\* Failed or Cancelled returns False, changes neither the queue, the running
\* set nor any record, and emits neither process_cancelled nor
\* process_finished.
C5_TerminalIdempotence ==
    [][\A id \in Ids :
          (UnknownOrTerminal(id) /\ Called("cancel_process", id)) =>
             /\ last'.ret = FALSE
             /\ UNCHANGED <<process_queue, active_processes, process_info>>
             /\ ~HasEv(trace', "process_cancelled", id)
             /\ ~HasEv(trace', "process_finished", id)]_vars

\* C6: a record that is Finished, Failed or Cancelled keeps its state through
\* cancel_process, stop_process, stop_all_processes, the queue drain and
\* exit notifications.
C6_NoTransitionOutOfTerminal ==
    [][(last'.op \in {"cancel_process", "stop_process", "stop_process_force",
                      "stop_all_processes", "_process_queue", "_handle_finished"}) =>
          \A id \in Ids :
             process_info[id].state \in Terminal =>
                process_info'[id].state = process_info[id].state]_vars

\* C7: when stop_process (directly, through cancel_process or through
\* stop_all_processes) has signalled a running process, the record is
\* Cancelled and process_cancelled has been emitted only if the process is
\* known to have terminated, i.e. its exit has been handled and it has left
\* active_processes.
C7_CancelledOnlyOnceTerminated ==
    \A id \in Ids :
       (/\ HasEv(trace, "QProcess.terminate", id) \/ HasEv(trace, "QProcess.kill", id)
        /\ process_info[id].state = CANCELLED \/ HasEv(trace, "process_cancelled", id))
       => id \notin Range(active_processes)

\* start_process(id) would be rejected: id is running or the cap is reached
Rejected(id) ==
    \/ id \in Range(active_processes)
    \/ Len(active_processes) >= max_concurrent_processes

\* C8: start_process with an id that is already running, or at the cap,
\* returns False, emits an error, spawns nothing and leaves the queue, the
\* running set and every record unchanged.
C8_StartRejected ==
    [][\A id \in Ids :
          (Rejected(id) /\ Called("start_process", id)) =>
             /\ last'.ret = FALSE
             /\ Len(trace') = 1
             /\ trace'[1].sig = "error_occurred"
             /\ trace'[1].id = id
             /\ UNCHANGED <<process_queue, active_processes, process_info>>]_vars

\* a start at the cap, of an id that is not running, was turned down
C8_Witness ==
    /\ last.op = "start_process"
    /\ ~last.ret
    /\ last.id \notin Range(active_processes)
    /\ Len(active_processes) = max_concurrent_processes
    /\ trace = <<Ev("error_occurred", last.id, ErrMaxReached, 0)>>

\* the last handler ran start_process(id) and the spawn itself failed
SpawnFailed(id) ==
    /\ last.op \in {"start_process", "_process_queue"}
    /\ \E k \in DOMAIN trace :
          /\ trace[k].sig = "error_occurred"
          /\ trace[k].id = id
          /\ trace[k].a \in {ErrFailedToStart, ErrStarting}

\* C9: after a failed spawn, from a direct start_process or from the drain,
\* the record is not Running, the id is not in active_processes, an error
\* was emitted and start_process returned False.
C9_SpawnFailure ==
    \A id \in Ids :
       SpawnFailed(id) =>
          /\ process_info[id].state # RUNNING
          /\ id \notin Range(active_processes)
          /\ last.op = "start_process" => ~last.ret

\* C10: whenever process_finished(id, c) is emitted for a process of the
\* running set, the record becomes Finished when c = 0 and Failed otherwise,
\* with exit_code = c, the id leaves active_processes, and the signal is
\* emitted once.
C10_ExitHandling ==
    [][\A id \in Ids :
          /\ (last'.op = "_handle_finished" /\ last'.id = id /\ id \in Range(active_processes))
                => HasEv(trace', "process_finished", id)
          /\ \A k \in DOMAIN trace' :
                (trace'[k].sig = "process_finished" /\ trace'[k].id = id) =>
                   /\ id \in Range(active_processes)
                   /\ id \notin Range(active_processes')
                   /\ process_info'[id].exit_code = trace'[k].a
                   /\ process_info'[id].state = IF trace'[k].a = 0 THEN FINISHED ELSE FAILED
                   /\ CountSig(trace', "process_finished", id) = 1]_vars

\* a running process reported a non-zero exit code
C10_Witness ==
    \E id \in Ids :
       /\ last.op = "_handle_finished"
       /\ last.id = id
       /\ trace[1] = Ev("process_finished", id, 1, 0)
       /\ process_info[id] = [state |-> FAILED, exit_code |-> 1]
       /\ id \notin Range(active_processes)

\* C11: in every reachable state a record carries an exit code only if its
\* state is Finished or Failed, also when an id whose earlier run has ended
\* is started again.
C11_ExitCodeOnlyWhenEnded ==
    \A id \in Ids :
       process_info[id].exit_code # NoCode => process_info[id].state \in {FINISHED, FAILED}

\* C12: queue_process returns the caller's id when one is given and an id
\* the manager does not know yet otherwise, leaves that id's record Queued
\* without an exit code, appends exactly one entry for it at the tail of the
\* queue, emits process_queued once, and changes neither active_processes
\* nor the record of any other id.
C12_EnqueueAlwaysSucceeds ==
    [][\A id \in Ids :
          Called("queue_process", id) =>
             /\ IF last'.arg # NoId
                THEN id = last'.arg
                ELSE process_info[id] = NoInfo /\ id \notin Range(active_processes)
             /\ process_info'[id] = [state |-> QUEUED, exit_code |-> NoCode]
             /\ Len(process_queue') = Len(process_queue) + 1
             /\ SubSeq(process_queue', 1, Len(process_queue)) = process_queue
             /\ process_queue'[Len(process_queue')].process_id = id
             /\ CountSig(trace', "process_queued", id) = 1
             /\ active_processes' = active_processes
             /\ \A j \in Ids \ {id} : process_info'[j] = process_info[j]]_vars

\* an id was generated and enqueued behind a waiting entry while a process ran
C12_Witness ==
    /\ last.op = "queue_process"
    /\ last.arg = NoId
    /\ Len(process_queue) >= 2
    /\ process_queue[Len(process_queue)].process_id = last.id
    /\ active_processes # <<>>

\* C13: the entry the drain hands to start_process is the one enqueued
\* earliest among the entries still in the queue, so the entries that are
\* not cancelled are started in the order of their enqueue and no entry is
\* started while an earlier one is still queued.
C13_FifoQueue ==
    /\ [][\A n \in spawned' \ spawned :
             /\ \A e \in Range(process_queue) : n <= e.n
             /\ \A m \in spawned : m < n]_vars
    /\ [](\A e \in Range(process_queue) : \A m \in spawned : m < e.n)

\* the drain started the older of two waiting entries
C13_Witness ==
    /\ last.op = "_process_queue"
    /\ HasEv(trace, "process_started", last.id)
    /\ spawned # {}
    /\ process_queue # <<>>
    /\ dequeued = {}

\* C14: an id has an entry in process_queue if and only if its record is in
\* state Queued.
C14_QueueEntryIffQueued ==
    \A id \in Ids :
       QueueIndex(process_queue, id) # 0 <=> process_info[id].state = QUEUED

\* the number of entries of id in a queue
EntriesOf(q, id) == Cardinality({k \in DOMAIN q : q[k].process_id = id})

C16_OutputBeforeTerminal ==
    \A k \in DOMAIN out_events : out_events[k].id \notin terminal_emitted

\* the lines of a text that end with a newline
CompleteLines(x) ==
    LET parts == split(x)
    IN  {parts[k] : k \in 1..(Len(parts) - 1)}

\* C17: however the pipe is cut into chunks, every process_output and
\* process_error carries one complete newline-terminated line of the stream
\* (with the surrounding white space removed); a piece of a line is never
\* emitted.
C17_LineWiseOutput ==
    \A k \in DOMAIN out_events :
       out_events[k].sig \in {"process_output", "process_error"} =>
          \E l \in CompleteLines(stream) : out_events[k].line = strip(l)

\* pattern k matches the line and yields a percentage
Usable(k, x) ==
    LET match == search(patterns[k], x)
    IN  match.ok /\ (Len(match.groups) = 2 => match.groups[2] > 0)

PercentOf(k, x) ==
    LET g == search(patterns[k], x).groups
    IN  IF Len(g) = 1 THEN Clamp(g[1]) ELSE Clamp(Percent(g[1], g[2]))

\* the percentage of the first pattern, among those numbered in ks, that
\* matches the line; -1 when none does
FirstMatch(ks, x) ==
    LET K == {k \in ks : Usable(k, x)}
    IN  IF K = {} THEN -1
        ELSE PercentOf(CHOOSE k \in K : \A j \in K : k <= j, x)

ProcessingLine(n) ==
    <<"P", "r", "o", "c", "e", "s", "s", "i", "n", "g", " ">> \o str(n) \o <<"%">>

Examples(x, r) ==
    /\ x = ProcessingLine(50) => r = 50
    /\ x = StepWord \o <<"3", " ", "o", "f", " ", "5">> => r = 60
    /\ x = ProgressWord \o <<"7", "5">> => r = 75
    /\ x = <<"[", "4", "/", "1", "0", "]">> => r = 40
    /\ x = NoProgressInfo => r = -1

\* C18 as stated: the result is the percentage of the first matching pattern
\* among n%, current/total, 'Progress: n', 'Step n of m' and '[n/m]', and -1
\* when none of these five matches.
C18_FirstOfFivePatterns ==
    progress # NoResult =>
       /\ progress = FirstMatch({1, 2, 3, 4, 6}, stream)
       /\ Examples(stream, progress)

\* C18 amended: the list has six patterns, 'Processing n of m' standing
\* between 'Step n of m' and '[n/m]'; the result is the percentage of the
\* first of the six that matches, -1 when none matches, and the five example
\* lines give 50, 60, 75, 40 and -1.
C18_FirstOfSixPatterns ==
    progress # NoResult =>
       /\ progress = FirstMatch(1..6, stream)
       /\ Examples(stream, progress)

\* 'Progress: 5 7%' matches 'Progress: n' and n%; n% is first and gives 7
C18_Witness ==
    /\ progress = 7
    /\ Usable(1, stream)
    /\ Usable(3, stream)
    /\ PercentOf(3, stream) = 5

\* C19: the extractor returns -1 or an integer of 0..100; a matched number
\* above 100 ('150%', '7/5') gives 100; and every process_progress_updated
\* carries a percentage of 0..100.
C19_ProgressRange ==
    /\ progress # NoResult =>
          /\ progress \in {-1} \cup (0..100)
          /\ (input.current # None /\ input.current > 100 /\ input.sep = PercentSign)
                => progress = 100
          /\ (/\ input.current # None /\ input.total # None /\ input.sep = Slash
              /\ input.suffix # <<"%">>
              /\ input.total > 0 /\ input.current > input.total)
                => progress = 100
    /\ \A k \in DOMAIN out_events :
          out_events[k].sig = "process_progress_updated" => out_events[k].pct \in 0..100

\* the child printed '150%' and the progress signal carries 100
C19_Witness ==
    /\ last.op = "_handle_stdout"
    /\ stream = <<"1", "5", "0", "%", " ">>
    /\ \E k \in DOMAIN out_events :
          out_events[k] = OutEv("process_progress_updated", 1, <<"1", "5", "0", "%">>, 100)

\* a line whose first usable pattern is a fraction of input.current and
\* input.total: 'c/t', '[c/t]', 'Step c of t', 'Processing c of t'
FractionLine ==
    /\ input.current # None
    /\ input.total # None
    /\ input.total > 0
    /\ input.suffix # <<"%">>
    /\ \/ input.sep = Slash
       \/ input.sep = Of /\ input.prefix \in {StepWord, ProcessingWord}

\* C20: for a fraction-shaped match with total > 0 the percentage is
\* current/total*100 rounded to the nearest integer (either neighbour on a
\* tie) and clamped to 0..100.
C20_FractionRounding ==
    (progress # NoResult /\ FractionLine) =>
       LET f == (100 * input.current) \div input.total
       IN  \E r \in {f, f + 1} :
              /\ 2 * (100 * input.current - r * input.total) <= input.total
              /\ 2 * (r * input.total - 100 * input.current) <= input.total
              /\ progress = Clamp(r)

\* the files that have a process in the PDFHandler's active mapping
ActivePdfs == {e.pdf_path : e \in Range(processing_state.active_processes)}

\* the PDFHandler's call op(pdf_path) ran in this step
CalledOn(op, pdf_path) == nOps' = nOps + 1 /\ last'.op = op /\ last'.arg = pdf_path

\* the processes the handler of this step asked Qt to start
Started(tr) == {tr[k].id : k \in {j \in DOMAIN tr : tr[j].sig = "QProcess.start"}}

\* C21: in every reachable state of the PDFHandler on top of its process
\* manager, a file is the value of at most one entry of
\* processing_state.active_processes (and a process id is the key of at most
\* one entry): a file never has two tracked processes at the same time.
C21_OneActiveProcessPerPdf ==
    LET d == processing_state.active_processes
    IN  \A i, j \in 1..Len(d) :
           (d[i].pdf_path = d[j].pdf_path \/ d[i].process_id = d[j].process_id) => i = j

\* a pipeline was asked for while the segmentation of the same file was
\* tracked: the start was refused and the file still has its one entry
C21_Witness ==
    /\ last.op = "start_full_processing"
    /\ ~last.ret
    /\ last.arg \in pdf_dir
    /\ processing_state.active_processes =
          <<[process_id |-> PidSegment(last.arg), pdf_path |-> last.arg]>>

\* C22: a submit (start_full_processing, handle_pdf_drop) of a file that has
\* an active process changes neither processing_queue nor the active mapping
\* nor processing_history nor failed_pdfs and starts no process; and no file
\* is ever in processing_queue and in the active mapping at the same time.
C22_SubmitActiveIsNoOp ==
    [][/\ \A p \in ActivePdfs :
             (CalledOn("start_full_processing", p) \/ CalledOn("handle_pdf_drop", p)) =>
                /\ processing_state'.processing_queue = processing_state.processing_queue
                /\ processing_state'.active_processes = processing_state.active_processes
                /\ processing_state'.processing_history = processing_state.processing_history
                /\ processing_state'.failed_pdfs = processing_state.failed_pdfs
                /\ Started(trace') = {}
       /\ \A e \in Range(processing_state'.active_processes) :
             e.pdf_path \notin Range(processing_state'.processing_queue)]_vars

\* the process manager reported in this step that process id ended with
\* exit_code
Exited(id, exit_code) ==
    /\ id \in Range(active_processes)
    /\ last'.op = "_handle_finished"
    /\ last'.id = id
    /\ last'.arg = exit_code
    /\ CountSig(trace', "process_finished", id) = 1

\* C23: when exit code 0 is reported for the tracked segmentation of a file
\* (a stage that is not the last one), the PDFHandler appends a history
\* record with success = True and, in the same step, starts the process of
\* the next stage for the same file.
C23_StageAdvance ==
    [][\A e \in Range(processing_state.active_processes) :
          (e.process_id = PidSegment(e.pdf_path) /\ Exited(e.process_id, 0)) =>
             /\ processing_state'.processing_history =
                   Append(processing_state.processing_history,
                          [pdf_path    |-> e.pdf_path,
                           process_id  |-> e.process_id,
                           success     |-> TRUE,
                           output_path |-> TxtPath(e.pdf_path)])
             /\ Started(trace') # {}
             /\ e.pdf_path \in {f.pdf_path : f \in Range(processing_state'.active_processes)}]_vars

\* C24: when a non-zero exit code is reported for a process id of the active
\* mapping (a failing child as well as one that was killed by a cancel), the
\* PDFHandler removes the id from the mapping, appends exactly one history
\* record with success = False and no output path, appends the owning file
\* to failed_pdfs and starts no process.
C24_StageFailure ==
    [][\A e \in Range(processing_state.active_processes) :
       \A exit_code \in ExitCodes \ {0} :
          Exited(e.process_id, exit_code) =>
             /\ ~DictHas(processing_state'.active_processes, e.process_id)
             /\ processing_state'.processing_history =
                   Append(processing_state.processing_history,
                          [pdf_path    |-> e.pdf_path,
                           process_id  |-> e.process_id,
                           success     |-> FALSE,
                           output_path |-> NoPath])
             /\ processing_state'.failed_pdfs =
                   Append(processing_state.failed_pdfs, e.pdf_path)
             /\ Started(trace') = {}
             /\ e.pdf_path \notin {f.pdf_path : f \in Range(processing_state'.active_processes)}]_vars

\* a tracked process was reported with a non-zero exit code: its record is
\* the last of the history and its file is the one entry of failed_pdfs
C24_Witness ==
    /\ last.op = "_handle_finished"
    /\ last.arg # 0
    /\ process_info[last.id] = [state |-> FAILED, exit_code |-> last.arg]
    /\ processing_state.processing_history # <<>>
    /\ LET h == processing_state.processing_history[Len(processing_state.processing_history)]
       IN  /\ h.process_id = last.id
           /\ ~h.success
           /\ h.output_path = NoPath
           /\ processing_state.failed_pdfs = <<h.pdf_path>>
    /\ processing_state.active_processes = <<>>

\* C25: when retry_failed_pdf(pdf_path) has returned for a file of
\* failed_pdfs, the file is no longer in failed_pdfs and it has been
\* submitted again to the full pipeline: its pdf_pipeline_ process is tracked
\* or the file waits in processing_queue.
C25_Retry ==
    [][\A p \in Range(processing_state.failed_pdfs) :
          CalledOn("retry_failed_pdf", p) =>
             /\ p \notin Range(processing_state'.failed_pdfs)
             /\ \/ p \in Range(processing_state'.processing_queue)
                \/ [process_id |-> PidPipeline(p), pdf_path |-> p]
                      \in Range(processing_state'.active_processes)]_vars

\* the history records of a file, oldest first
RecordsOf(p) == SelectSeq(processing_state.processing_history, LAMBDA h : h.pdf_path = p)

\* C26: failed_pdfs holds the files whose most recent finished attempt
\* failed: every file of failed_pdfs has a history record and the last of
\* its records has success = False, so a file whose latest attempt finished
\* successfully is not in failed_pdfs.
C26_FailedSetMeaning ==
    \A p \in Range(processing_state.failed_pdfs) :
       /\ RecordsOf(p) # <<>>
       /\ ~RecordsOf(p)[Len(RecordsOf(p))].success

\* C27: with the files FileA and FileB both submitted, FileA's process
\* failing and nobody cancelling, once nothing runs and nothing is scheduled
\* any more FileA is in failed_pdfs, FileB is not, and FileB has been
\* processed: it has a history record, and all its records have
\* success = True.
C27_PipelineIsolation ==
    ({FileA, FileB} \subseteq submitted /\ active_processes = <<>> /\ ~queue_timer) =>
       /\ FileA \in Range(processing_state.failed_pdfs)
       /\ FileB \notin Range(processing_state.failed_pdfs)
       /\ RecordsOf(FileB) # <<>>
       /\ \A k \in DOMAIN RecordsOf(FileB) : RecordsOf(FileB)[k].success

\* the process ids cancel_processing(p) asks the process manager to stop:
\* the keys of the active mapping whose text contains the basename of p
StopRequests(p) ==
    {e.process_id : e \in {f \in Range(processing_state.active_processes) :
                              Contains(ProcessIdText(f.process_id), basename(p))}}

\* C28: cancel_processing(pdf_path) asks the process manager for a forced
\* stop (kill) of the file's active process, if it has one, takes the file
\* out of processing_queue and leaves the rest of the queue as it was; it
\* returns True exactly when every stop it requested was accepted, which
\* includes the case that there was nothing to stop.
C28_CancelEntity ==
    [][\A p \in Pdfs :
          CalledOn("cancel_processing", p) =>
             /\ \A e \in Range(processing_state.active_processes) :
                   e.pdf_path = p =>
                      /\ e.process_id \in StopRequests(p)
                      /\ HasEv(trace', "QProcess.kill", e.process_id)
                      /\ ~HasEv(trace', "QProcess.terminate", e.process_id)
             /\ processing_state'.processing_queue =
                   SelectSeq(processing_state.processing_queue, LAMBDA q : q # p)
             /\ last'.ret = (\A id \in StopRequests(p) : id \in Range(active_processes))
             /\ (StopRequests(p) = {}) => (last'.ret /\ trace' = <<>>)]_vars

\* a running pipeline was killed by cancel_processing of its file, which
\* returned True
C28_Witness ==
    /\ last.op = "cancel_processing"
    /\ last.ret
    /\ HasEv(trace, "QProcess.kill", PidPipeline(last.arg))
    /\ [process_id |-> PidPipeline(last.arg), pdf_path |-> last.arg]
          \in Range(processing_state.active_processes)

\* C29: processing_history is append-only: in every step of the PDFHandler
\* (submit, retry, cancel_processing, cancel_all_processing, process exit,
\* timer) the old history is a prefix of the new one, so no record is ever
\* removed, moved or changed.
C29_HistoryAppendOnly ==
    [][/\ Len(processing_state'.processing_history) >= Len(processing_state.processing_history)
       /\ SubSeq(processing_state'.processing_history, 1,
                 Len(processing_state.processing_history))
             = processing_state.processing_history]_vars

\* cancel_all_processing ran on a PDFHandler with two history records
C29_Witness ==
    /\ last.op = "cancel_all_processing"
    /\ Len(processing_state.processing_history) = 2
    /\ processing_state.processing_history[1].process_id
          # processing_state.processing_history[2].process_id

\* C30: cancel_all_processing calls stop_all_processes of the process manager
\* (its queue is cleared, every running process is killed and reported
\* cancelled) and returns True; afterwards processing_queue and the active
\* mapping are empty and current_pdf is None, while processing_history and
\* failed_pdfs are as before the call.
C30_CancelAll ==
    [][CalledOn("cancel_all_processing", NoPdf) =>
          /\ last'.ret = TRUE
          /\ process_queue' = <<>>
          /\ \A id \in Range(active_processes) :
                /\ HasEv(trace', "QProcess.kill", id)
                /\ HasEv(trace', "process_cancelled", id)
                /\ process_info'[id].state = CANCELLED
          /\ processing_state'.processing_queue = <<>>
          /\ processing_state'.active_processes = <<>>
          /\ processing_state'.current_pdf = NoPdf
          /\ processing_state'.processing_history = processing_state.processing_history
          /\ processing_state'.failed_pdfs = processing_state.failed_pdfs
          /\ processing_state'.last_output_path = processing_state.last_output_path]_vars

\* cancel_all_processing killed a running process of a PDFHandler that has a
\* failed file on record
C30_Witness ==
    /\ last.op = "cancel_all_processing"
    /\ last.ret
    /\ \E id \in Range(active_processes) : HasEv(trace, "QProcess.kill", id)
    /\ processing_state.failed_pdfs # <<>>
    /\ processing_state.processing_history # <<>>
    /\ processing_state.active_processes = <<>>

\* the last handler was a drain step whose spawn of process id failed
DrainSpawnFailed(id) == SpawnFailed(id) /\ last.op = "_process_queue"

\* C31: with auto_process_queue, when the spawn of the entry at the head of
\* the queue fails while further entries are queued, the record of the
\* failed entry is Failed, the failed id holds no slot and the timer is armed
\* again; the next run of the drain passes the entry that is then at the
\* head to start_process; and without any call of the caller the queue is
\* eventually drained, every entry having been passed to start_process.
C31_SpawnFailureDoesNotStall ==
    /\ [](\A id \in Ids :
            (DrainSpawnFailed(id) /\ process_queue # <<>>) =>
               /\ process_info[id].state = FAILED
               /\ id \notin Range(active_processes)
               /\ Len(active_processes) < max_concurrent_processes
               /\ queue_timer)
    /\ [][((\E id \in Ids : DrainSpawnFailed(id)) /\ process_queue # <<>>
            /\ ~queue_timer' /\ last'.op = "_process_queue")
              => Head(process_queue).n \in spawned']_vars
    /\ <>[](process_queue = <<>> /\ spawned = 1..nEnqueued)

\* the spawn of the head failed and another entry waits behind it
C31_Witness ==
    /\ \E id \in Ids : DrainSpawnFailed(id) /\ process_info[id].state = FAILED
    /\ process_queue # <<>>
    /\ active_processes = <<>>

\* position of the first emission of sig for id in a trace, 0 when there is none
FirstEv(tr, sig, id) ==
    IF HasEv(tr, sig, id)
    THEN CHOOSE k \in DOMAIN tr :
            /\ tr[k].sig = sig /\ tr[k].id = id
            /\ \A j \in 1..(k - 1) : ~(tr[j].sig = sig /\ tr[j].id = id)
    ELSE 0

\* C32: for a running id, stop_process(id, force=False) and cancel_process(id)
\* send terminate first and send kill (after it) exactly when the child has
\* not ended within the grace wait; stop_process(id, force=True) sends kill
\* and no terminate; in both cases the call returns True and the record of
\* the id is Cancelled when it returns.
C32_GracefulThenForcedStop ==
    [][\A id \in Range(active_processes) :
          /\ (\/ Called("stop_process", id)
              \/ (Called("cancel_process", id) /\ QueueIndex(process_queue, id) = 0)) =>
                /\ HasEv(trace', "QProcess.terminate", id)
                /\ HasEv(trace', "QProcess.kill", id) <=> ~HasEv(trace', "process_finished", id)
                /\ HasEv(trace', "QProcess.kill", id) =>
                      FirstEv(trace', "QProcess.terminate", id) < FirstEv(trace', "QProcess.kill", id)
                /\ last'.ret = TRUE
                /\ process_info'[id].state = CANCELLED
          /\ Called("stop_process_force", id) =>
                /\ HasEv(trace', "QProcess.kill", id)
                /\ ~HasEv(trace', "QProcess.terminate", id)
                /\ last'.ret = TRUE
                /\ process_info'[id].state = CANCELLED]_vars

\* C33: a file that a submit left in processing_queue because the process
\* manager's budget was used up is started once a slot is free: whenever the
\* process manager is at rest (nothing runs, no timer is pending), no file
\* is waiting in processing_queue.
C33_PendingProgress ==
    (active_processes = <<>> /\ ~queue_timer) =>
       processing_state.processing_queue = <<>>

\* the fraction patterns whose match in line x has total 0
ZeroTotal(x) ==
    {k \in DOMAIN patterns :
        LET match == search(patterns[k], x)
        IN  match.ok /\ Len(match.groups) = 2 /\ match.groups[2] = 0}

\* C34: a fraction-shaped match with total 0 ('3/0', 'Step 3 of 0') gives no
\* percentage and raises nothing: the result is the one of the first
\* matching pattern among the others, and -1 when none of the others
\* matches; _handle_stdout emits no progress signal for such a line.
C34_ZeroTotalIsNoMatch ==
    LET others == {k \in DOMAIN patterns \ ZeroTotal(stream) : search(patterns[k], stream).ok}
    IN  /\ (progress # NoResult /\ ZeroTotal(stream) # {}) =>
              /\ others = {} => progress = -1
              /\ others # {} => progress = PercentOf(CHOOSE k \in others : \A j \in others : k <= j,
                                                     stream)
              /\ progress \in {-1} \cup (0..100)
        /\ (last.op = "_handle_stdout" /\ ZeroTotal(stream) # {} /\ others = {}) =>
              \A k \in DOMAIN out_events : out_events[k].sig # "process_progress_updated"

\* 'Step 3 of 0' was given to the extractor and the result is -1
C34_Witness ==
    /\ stream = StepWord \o <<"3", " ", "o", "f", " ", "0">>
    /\ ZeroTotal(stream) = {4}
    /\ progress = -1


\* C35: cancel_processing(A) never stops a process that the active mapping
\* of the PDFHandler attributes to another file B: no terminate and no kill
\* is sent to it, whatever the two file names are ('a.pdf' and 'xa.pdf'
\* included).
C35_CancelIsolation ==
    [][\A A \in Pdfs :
          CalledOn("cancel_processing", A) =>
             \A e \in Range(processing_state.active_processes) :
                e.pdf_path # A =>
                   /\ ~HasEv(trace', "QProcess.kill", e.process_id)
                   /\ ~HasEv(trace', "QProcess.terminate", e.process_id)]_vars


\* the terminal events (process_finished, process_cancelled) of id in tr
TerminalEvents(tr, id) ==
    CountSig(tr, "process_finished", id) + CountSig(tr, "process_cancelled", id)

\* C36: a run of a process gets one terminal event and no more: a step of
\* the manager emits at most one of process_finished and process_cancelled
\* for a running id, and none for a running id whose process_cancelled was
\* emitted by an earlier step of the same run.
C36_OneTerminalEventPerRun ==
    [][\A id \in Range(active_processes) :
          /\ TerminalEvents(trace', id) <= 1
          /\ id \in terminal_emitted => TerminalEvents(trace', id) = 0]_vars


\* the history records of process process_id in processing state ps
HistoryOf(ps, process_id) ==
    SelectSeq(ps.processing_history, LAMBDA r : r.process_id = process_id)

\* C37: every process the PDFHandler recorded as active (start_processing,
\* which it calls for every process its manager started) gets its history
\* record when the manager reports the exit: the step that reports the exit
\* of a running process appends exactly one record for it, whatever
\* cancel_processing and cancel_all_processing did in between.
C37_HistoryComplete ==
    [][\A id \in Range(active_processes) : \A exit_code \in ExitCodes :
          Exited(id, exit_code) =>
             Len(HistoryOf(processing_state', id)) = Len(HistoryOf(processing_state, id)) + 1]_vars


\* the positions of the queue_status_changed emissions in tr
StatusEvents(tr) == {k \in DOMAIN tr : tr[k].sig = "queue_status_changed"}

\* C38: the queue_status_changed events stay current: a step of the manager
\* that changes the length of process_queue or the number of running
\* processes emits queue_status_changed, and the last one it emits carries
\* the new queue length and the new running count.
C38_QueueStatusCurrent ==
    [][(Len(process_queue') # Len(process_queue)
        \/ Len(active_processes') # Len(active_processes)) =>
          /\ StatusEvents(trace') # {}
          /\ LET k == CHOOSE j \in StatusEvents(trace') : \A i \in StatusEvents(trace') : i <= j
             IN  /\ trace'[k].a = Len(process_queue')
                 /\ trace'[k].b = Len(active_processes')]_vars


\* C39: every process id in the active mapping of the PDFHandler
\* (ProcessingState.active_processes) is in the running set of its process
\* manager (ProcessManager.active_processes).
C39_TrackedAreRunning ==
    \A e \in Range(processing_state.active_processes) :
       e.process_id \in Range(active_processes)

\* a tracked process is running in the manager after the exit of an earlier
\* one was reported and recorded
C39_Witness ==
    /\ processing_state.active_processes # <<>>
    /\ processing_state.processing_history # <<>>
    /\ \A e \in Range(processing_state.active_processes) :
          /\ e.process_id \in Range(active_processes)
          /\ process_info[e.process_id].state = RUNNING
====
